---- MODULE Spec2Model ----
(***************************************************************************)
(* Job orchestration of collab-workspace-backend: JobService (create, get, *)
(* cancel, updateJobStatus, syncJobStatus), QueueManager (addJob, getJob,   *)
(* removeJob) and WorkerService (processJob and the 'completed'/'failed'   *)
(* handlers), over the jobs table and the BullMQ queues.                    *)
(*                                                                         *)
(* Every await of the service methods is a step boundary: a request is a   *)
(* caller with a program counter and a local copy of the entity it loaded. *)
(* repository.save(entity) writes the caller's copy of the row.             *)
(* updateJobStatus (findOne, assignments, save) is taken as one step.       *)
(*                                                                         *)
(* Spec       one API client, the workers and their handlers, within one   *)
(*            reading of the clock                                         *)
(* SpecCreate createJob requests racing each other                         *)
(* SpecWorker jobs created and left to the workers, with the clock running *)
(* SpecPoll   one client creating and polling jobs, the workers, with the   *)
(*            clock running                                                *)
(* SpecOutage one client creating and cancelling jobs, the workers, and     *)
(*            calls to the engine that fail                                *)
(* SpecApi    create requests of any type arriving at the controller       *)
(* SpecAttempts create requests with any maxAttempts                         *)
(* SpecRace   clients creating and cancelling jobs concurrently, the        *)
(*            workers taking the items                                     *)
(* SpecOwner  jobs of one user, read and cancelled by requests of any user *)
(* SpecLocked one client creating and cancelling jobs, the workers, and the *)
(*            engine refusing to remove an item a worker has locked        *)
(* SpecStore  jobs left to the workers while writes to the store fail      *)
(* SpecStalled jobs left to the workers, whose items are reported stalled  *)
(* SpecBounded jobs created with any maxAttempts and left to the workers   *)
(* SpecLive   jobs left to the workers, with fair delivery and handling    *)
(***************************************************************************)
EXTENDS Integers, Sequences, FiniteSets, TLC

\* ---------------------------------------------------------------- bounds
\* rows the jobs table can hold
MaxJobs == 2
\* API clients of Spec, each with one request in flight at a time
MaxCallers == 1
\* API clients of SpecCreate, which race on createJob
MaxCreators == 2
\* readings of the clock
MaxClock == 2

\* ------------------------------------------------------- program constants
DefaultMaxAttempts == 3
WorkerDefaultAttempts == 3

\* ------------------------------------------------------------ value sets
NULL == "null"

PENDING == "pending"
PROCESSING == "processing"
COMPLETED == "completed"
FAILED == "failed"
CANCELLED == "cancelled"

JobStatus == {PENDING, PROCESSING, COMPLETED, FAILED, CANCELLED}

\* JobType values, as character sequences (queue names are derived from them)
EMAIL_SEND == <<"e", "m", "a", "i", "l", ":", "s", "e", "n", "d">>
FILE_PROCESS == <<"f", "i", "l", "e", ":", "p", "r", "o", "c", "e", "s", "s">>

DATA_EXPORT == <<"d", "a", "t", "a", ":", "e", "x", "p", "o", "r", "t">>
NOTIFICATION_SEND ==
    <<"n", "o", "t", "i", "f", "i", "c", "a", "t", "i", "o", "n", ":", "s", "e", "n", "d">>
WORKSPACE_BACKUP ==
    <<"w", "o", "r", "k", "s", "p", "a", "c", "e", ":", "b", "a", "c", "k", "u", "p">>

JobType == {EMAIL_SEND, FILE_PROCESS, DATA_EXPORT, NOTIFICATION_SEND, WORKSPACE_BACKUP}

\* request inputs
Callers == 1..MaxCallers
Creators == 1..MaxCreators
JobIds == 1..MaxJobs
\* the create requests callers send. NULL stands for an absent (or empty, hence
\* falsy) idempotencyKey, 0 for an absent maxAttempts (falsy as well). A client
\* is free to send the id of a job it was given ("u1") as a key
Requests ==
    {[type |-> EMAIL_SEND, data |-> "p1", idempotencyKey |-> "k1", userId |-> NULL,
      maxAttempts |-> 2],
     [type |-> EMAIL_SEND, data |-> "p2", idempotencyKey |-> "k1", userId |-> NULL,
      maxAttempts |-> 1],
     [type |-> FILE_PROCESS, data |-> "p1", idempotencyKey |-> NULL, userId |-> NULL,
      maxAttempts |-> 1],
     [type |-> FILE_PROCESS, data |-> "p2", idempotencyKey |-> "u1", userId |-> NULL,
      maxAttempts |-> 1]}
\* create requests as they reach the controller: the body's type is any string
\* (here a queue name, and the empty string), or missing
BadRequests ==
    {[type |-> <<"e", "m", "a", "i", "l", "-", "s", "e", "n", "d">>, data |-> "p1",
      idempotencyKey |-> "k1", userId |-> NULL, maxAttempts |-> 1],
     [type |-> <<>>, data |-> "p1", idempotencyKey |-> NULL, userId |-> NULL, maxAttempts |-> 1]}
\* create requests with every kind of maxAttempts the body can carry: negative,
\* zero or absent (0), positive
AttemptRequests ==
    {[type |-> EMAIL_SEND, data |-> "p1", idempotencyKey |-> NULL, userId |-> NULL,
      maxAttempts |-> n] : n \in {-1, 0, 1, 2}}
\* the authenticated users: the owner of the jobs, and every user a
\* request can come from (NULL: a request without identity)
Owners == {"ua"}
Users == {"ua", "ub", NULL}
\* what a processor returns, and the message of the error it throws
JobResults == {"r1"}
ErrorMessages == {"boom"}

\* ------------------------------------------------------------ JS helpers
\* truthiness of an optional string / object
Truthy(v) == v # NULL /\ v # ""

\* queue.ts, lines 13-15: jobType.replace(/:/g, '-')
sanitizeQueueName(jobType) ==
    [i \in DOMAIN jobType |-> IF jobType[i] = ":" THEN "-" ELSE jobType[i]]

\* a worker naming its queue by the type as it is
sanitizeQueueNameKeepColons(jobType) == jobType

\* part_025, lines 8-10: the worker service's own copy of sanitizeQueueName
sanitizeQueueNameWorker(jobType) ==
    [i \in DOMAIN jobType |-> IF jobType[i] = ":" THEN "-" ELSE jobType[i]]

\* ------------------------------------------------------------ the entity
\* A row of the jobs table. createdAt and updatedAt are left out: no operation
\* below reads them. Timestamps are clock readings, 0 when null.
NoJob ==
    [id |-> 0, type |-> <<>>, status |-> NULL, data |-> NULL, result |-> NULL,
     error |-> NULL, idempotencyKey |-> NULL, userId |-> NULL, attempts |-> 0,
     maxAttempts |-> 0, startedAt |-> 0, completedAt |-> 0, failedAt |-> 0]

\* this.jobRepository.create({...}) followed by the insert (id generated)
NewJob(id, dto, userId) ==
    [id |-> id,
     type |-> dto.type,
     status |-> PENDING,
     data |-> dto.data,
     result |-> NULL,
     error |-> NULL,
     idempotencyKey |-> IF Truthy(dto.idempotencyKey) THEN dto.idempotencyKey ELSE NULL,
     userId |-> IF Truthy(userId) THEN userId
                ELSE IF Truthy(dto.userId) THEN dto.userId ELSE NULL,
     attempts |-> 0,
     maxAttempts |-> IF dto.maxAttempts # 0 THEN dto.maxAttempts ELSE DefaultMaxAttempts,
     startedAt |-> 0, completedAt |-> 0, failedAt |-> 0]

\* JobService.mapToResponse
mapToResponse(job) ==
    [id |-> job.id, type |-> job.type, status |-> job.status, data |-> job.data,
     result |-> job.result, error |-> job.error, attempts |-> job.attempts,
     maxAttempts |-> job.maxAttempts, startedAt |-> job.startedAt,
     completedAt |-> job.completedAt, failedAt |-> job.failedAt]

NoRet == [kind |-> "none", job |-> mapToResponse(NoJob), val |-> FALSE]
RetJob(job) == [kind |-> "job", job |-> mapToResponse(job), val |-> FALSE]
RetNull == [kind |-> "null", job |-> mapToResponse(NoJob), val |-> FALSE]
RetBool(b) == [kind |-> "bool", job |-> mapToResponse(NoJob), val |-> b]
RetThrow == [kind |-> "error", job |-> mapToResponse(NoJob), val |-> FALSE]
RetInvalid == [kind |-> "invalid", job |-> mapToResponse(NoJob), val |-> FALSE]

NoDto == [type |-> <<>>, data |-> NULL, idempotencyKey |-> NULL, userId |-> NULL,
          maxAttempts |-> 0]

\* no reconciliation computed
NoSync == [status |-> NULL, result |-> NULL, error |-> NULL]

IdleCall == [op |-> "idle", pc |-> "idle", dto |-> NoDto, userId |-> NULL,
             jobId |-> 0, job |-> NoJob, sync |-> NoSync, ret |-> NoRet]

VARIABLES
    jobs,     \* the jobs table: a sequence of rows, the id of a row is its index
    queue,    \* the engine: the set of items of all queues
    events,   \* worker events emitted and not yet handled
    calls,    \* the requests in flight, one per caller
    clock     \* what new Date() returns

vars == <<jobs, queue, events, calls, clock>>

\* ------------------------------------------------------------- the store
\* findOne({ where: { idempotencyKey } })
FindByKey(js, key) == {id \in DOMAIN js : js[id].idempotencyKey = key}

\* findOne({ where: { id } })
Exists(js, id) == id \in DOMAIN js

\* the lookup of getJobById and cancelJob without the owner
FindOneUnscoped(js, id, userId) == Exists(js, id)

\* findOne({ where }) with where = { id } and, for a truthy userId, where.userId
FindOne(js, id, userId) ==
    Exists(js, id) /\ (Truthy(userId) => js[id].userId = userId)

\* the id the store generates for a row (uuid_generate_v4), as the string the
\* service handles; rows are numbered in the order of their insertion
JobUuid(id) == <<"u1", "u2", "u3", "u4">>[id]

\* job.idempotencyKey || job.id: keys and ids are strings of one name space
QueueJobId(job) ==
    IF Truthy(job.idempotencyKey) THEN job.idempotencyKey ELSE JobUuid(job.id)

\* ------------------------------------------------------------ the engine
\* queue.getJob(jobId) on the queue of jobType
GetJob(q, jobType, jobId) ==
    {it \in q : it.queue = sanitizeQueueName(jobType) /\ it.id = jobId}

\* QueueManager.addJob: queue.add with jobId; an existing jobId is kept as it is
addJob(q, jobType, dbJobId, jobId, attempts) ==
    IF GetJob(q, jobType, jobId) # {}
    THEN q
    ELSE q \cup {[queue |-> sanitizeQueueName(jobType), id |-> jobId,
                  dbJobId |-> dbJobId, state |-> "waiting", phase |-> "none",
                  attemptsMade |-> 0, attempts |-> attempts,
                  returnvalue |-> NULL, failedReason |-> NULL]}

\* job.remove(): an item a worker holds is left where it is
JobRemove(q, it) == IF it.state = "active" THEN q ELSE q \ {it}

\* QueueManager.removeJob
removeJob(q, jobType, jobId) ==
    LET found == GetJob(q, jobType, jobId)
    IN  IF found # {} THEN JobRemove(q, CHOOSE it \in found : TRUE) ELSE q

Init ==
    /\ jobs = <<>>
    /\ queue = {}
    /\ events = {}
    /\ calls = [c \in Callers |-> IdleCall]
    /\ clock = 1

\* ------------------------------------------------------------- createJob
\* a caller sends a request when it has none in flight
Free(c) == calls[c].pc \in {"idle", "done"}

\* rows that calls past the idempotency check are about to insert
Inserting == {c \in DOMAIN calls : calls[c].pc = "create_save"}

\* createJob without the lookup of lines 199-211
CreateCheckNoLookup(c, dto, userId) ==
    /\ Free(c)
    /\ Len(jobs) + Cardinality(Inserting) < MaxJobs
    /\ calls' = [calls EXCEPT ![c] =
            [IdleCall EXCEPT !.op = "create", !.pc = "create_save", !.dto = dto,
                        !.userId = userId]]
    /\ UNCHANGED <<jobs, queue, events, clock>>

\* lines 198-211: the idempotency check
CreateCheck(c, dto, userId) ==
    /\ Free(c)
    /\ LET existing == IF Truthy(dto.idempotencyKey)
                       THEN FindByKey(jobs, dto.idempotencyKey) ELSE {}
       IN  IF existing # {}
           THEN calls' = [calls EXCEPT ![c] =
                    [IdleCall EXCEPT !.op = "create", !.pc = "done", !.dto = dto,
                        !.userId = userId,
                        !.ret = RetJob(jobs[CHOOSE id \in existing : TRUE])]]
           ELSE /\ Len(jobs) + Cardinality(Inserting) < MaxJobs
                /\ calls' = [calls EXCEPT ![c] =
                    [IdleCall EXCEPT !.op = "create", !.pc = "create_save", !.dto = dto,
                        !.userId = userId]]
    /\ UNCHANGED <<jobs, queue, events, clock>>

\* lines 213-224: create and save; the unique constraint on idempotencyKey
\* rejects a second row with the same key, and the catch block rethrows
CreateSave(c) ==
    /\ calls[c].pc = "create_save"
    /\ LET dto == calls[c].dto
           job == NewJob(Len(jobs) + 1, dto, calls[c].userId)
       IN  IF job.idempotencyKey # NULL /\ FindByKey(jobs, job.idempotencyKey) # {}
           THEN /\ calls' = [calls EXCEPT ![c].pc = "done", ![c].ret = RetThrow]
                /\ UNCHANGED jobs
           ELSE /\ jobs' = Append(jobs, job)
                /\ calls' = [calls EXCEPT ![c].pc = "create_add", ![c].job = job]
    /\ UNCHANGED <<queue, events, clock>>

\* lines 226-244: enqueue and return the view of the saved entity
CreateAdd(c) ==
    /\ calls[c].pc = "create_add"
    /\ LET job == calls[c].job
       IN  /\ queue' = addJob(queue, job.type, job.id, QueueJobId(job), job.maxAttempts)
           /\ calls' = [calls EXCEPT ![c].pc = "done", ![c].job = NoJob,
                                     ![c].ret = RetJob(job)]
    /\ UNCHANGED <<jobs, events, clock>>

\* the controller's test without the enumeration
ValidTypeAny(type) == TRUE

\* JobController.createJob, line 20: Object.values(JobType).includes(dto.type)
ValidType(type) == type \in JobType

\* JobController.createJob, lines 16-29: validate, then hand over to the service
CreateRequest(c, dto, userId) ==
    IF ValidType(dto.type)
    THEN CreateCheck(c, dto, userId)
    ELSE /\ Free(c)
         /\ calls' = [calls EXCEPT ![c] =
                [IdleCall EXCEPT !.op = "create", !.pc = "done", !.dto = dto,
                    !.userId = userId, !.ret = RetInvalid]]
         /\ UNCHANGED <<jobs, queue, events, clock>>

\* JobController.createJob: the response to what the request ended in
createJobResponse(ret) ==
    IF ret.kind = "invalid"
    THEN [status |-> 400, error |-> "Invalid job type"]
    ELSE IF ret.kind = "error"
    THEN [status |-> 500, error |-> "Failed to create job"]
    ELSE [status |-> 201, error |-> NULL]

\* JobService.createJob, one await at a time
createJob ==
    \/ \E c \in DOMAIN calls, dto \in Requests, userId \in Owners :
            CreateCheck(c, dto, userId)
    \/ \E c \in DOMAIN calls : CreateSave(c)
    \/ \E c \in DOMAIN calls : CreateAdd(c)

\* ------------------------------------------------------- updateJobStatus
\* lines 401-420, on the entity loaded by findOne
UpdatedJob(job, status, result, error, now) ==
    [job EXCEPT
        !.status = status,
        !.result = IF Truthy(result) THEN result ELSE @,
        !.error = IF Truthy(error) THEN error ELSE @,
        !.startedAt = IF status = PROCESSING /\ job.startedAt = 0 THEN now ELSE @,
        !.completedAt = IF status = COMPLETED THEN now ELSE @,
        !.failedAt = IF status = FAILED THEN now ELSE @,
        !.attempts = IF status = FAILED THEN @ + 1 ELSE @]

\* JobService.updateJobStatus: a missing row is logged and skipped
updateJobStatus(js, jobId, status, result, error, now) ==
    IF Exists(js, jobId)
    THEN [js EXCEPT ![jobId] = UpdatedJob(@, status, result, error, now)]
    ELSE js

\* --------------------------------------------------------- syncJobStatus
\* lines 443-463: the status, result and error the engine item maps to
SyncTarget(job, it) ==
    IF it.state = "completed"
    THEN [status |-> COMPLETED,
          result |-> IF Truthy(it.returnvalue) THEN it.returnvalue ELSE job.result,
          error |-> job.error,
          \* returnvalue is an object read from the engine, never the entity's
          freshResult |-> Truthy(it.returnvalue)]
    ELSE IF it.state = "failed"
    THEN [status |-> FAILED, result |-> job.result,
          error |-> IF Truthy(it.failedReason) THEN it.failedReason ELSE job.error,
          freshResult |-> FALSE]
    ELSE IF it.state = "active"
    THEN [status |-> PROCESSING, result |-> job.result, error |-> job.error,
          freshResult |-> FALSE]
    ELSE IF it.state = "waiting"
    THEN [status |-> PENDING, result |-> job.result, error |-> job.error,
          freshResult |-> FALSE]
    ELSE [status |-> job.status, result |-> job.result, error |-> job.error,
          freshResult |-> FALSE]

\* lines 465-474: whether syncJobStatus calls updateJobStatus
\* (result is compared by reference, error by value)
SyncWrites(job, it) ==
    LET t == SyncTarget(job, it)
    IN  \/ t.status # job.status
        \/ (t.result # NULL /\ t.freshResult)
        \/ (t.error # NULL /\ t.error # job.error)

\* ------------------------------------------------------------ getJobById
\* lines 260-269
GetRead(c, jobId, userId) ==
    /\ Free(c)
    /\ IF FindOne(jobs, jobId, userId)
       THEN calls' = [calls EXCEPT ![c] =
                [IdleCall EXCEPT !.op = "get", !.pc = "get_sync", !.jobId = jobId,
                    !.userId = userId, !.job = jobs[jobId]]]
       ELSE calls' = [calls EXCEPT ![c] =
                [IdleCall EXCEPT !.op = "get", !.pc = "done", !.jobId = jobId,
                    !.userId = userId, !.ret = RetNull]]
    /\ UNCHANGED <<jobs, queue, events, clock>>

\* lines 271-275 and syncJobStatus lines 440-474: look the item up, ask the
\* engine for its state and decide whether to write; without an item or
\* without a difference the view of the entity loaded at line 265 is returned
GetSync(c) ==
    /\ calls[c].pc = "get_sync"
    /\ LET job == calls[c].job
           found == GetJob(queue, job.type, QueueJobId(job))
           it == CHOOSE i \in found : TRUE
           t == SyncTarget(job, it)
       IN  IF found # {} /\ SyncWrites(job, it)
           THEN calls' = [calls EXCEPT ![c].pc = "get_write",
                    ![c].sync = [status |-> t.status, result |-> t.result,
                                 error |-> t.error]]
           ELSE calls' = [calls EXCEPT ![c].pc = "done", ![c].job = NoJob,
                                       ![c].ret = RetJob(job)]
    /\ UNCHANGED <<jobs, queue, events, clock>>

\* syncJobStatus line 475 and getJobById line 280: the awaited updateJobStatus
\* with the values computed from the engine's answers, then the return
syncJobStatus(c) ==
    /\ calls[c].pc = "get_write"
    /\ LET job == calls[c].job
           t == calls[c].sync
       IN  /\ jobs' = updateJobStatus(jobs, job.id, t.status, t.result, t.error, clock)
           /\ calls' = [calls EXCEPT ![c].pc = "done", ![c].job = NoJob,
                                     ![c].sync = NoSync, ![c].ret = RetJob(job)]
    /\ UNCHANGED <<queue, events, clock>>

\* JobService.getJobById, one await at a time, for requests of the users U
getJobByIdAs(U) ==
    \/ \E c \in DOMAIN calls, jobId \in JobIds, userId \in U : GetRead(c, jobId, userId)
    \/ \E c \in DOMAIN calls : GetSync(c)
    \/ \E c \in DOMAIN calls : syncJobStatus(c)

getJobById == getJobByIdAs(Owners)

\* ------------------------------------------------------------- cancelJob
\* the test of lines 353-356 without its second disjunct
CannotCancelCompletedOnly(status) == status = COMPLETED

\* lines 353-356: the statuses cancelJob refuses
CannotCancel(status) == status = COMPLETED \/ status = CANCELLED

\* lines 342-362
CancelRead(c, jobId, userId) ==
    /\ Free(c)
    /\ IF FindOne(jobs, jobId, userId) /\ ~CannotCancel(jobs[jobId].status)
       THEN calls' = [calls EXCEPT ![c] =
                [IdleCall EXCEPT !.op = "cancel", !.pc = "cancel_remove",
                    !.jobId = jobId, !.userId = userId, !.job = jobs[jobId]]]
       ELSE calls' = [calls EXCEPT ![c] =
                [IdleCall EXCEPT !.op = "cancel", !.pc = "done", !.jobId = jobId,
                    !.userId = userId, !.ret = RetBool(FALSE)]]
    /\ UNCHANGED <<jobs, queue, events, clock>>

\* lines 364-366
CancelRemove(c) ==
    /\ calls[c].pc = "cancel_remove"
    /\ queue' = removeJob(queue, calls[c].job.type, QueueJobId(calls[c].job))
    /\ calls' = [calls EXCEPT ![c].pc = "cancel_save"]
    /\ UNCHANGED <<jobs, events, clock>>

\* lines 368-377: the entity loaded at line 347 is saved with status CANCELLED
CancelSave(c) ==
    /\ calls[c].pc = "cancel_save"
    /\ LET job == [calls[c].job EXCEPT !.status = CANCELLED]
       IN  /\ jobs' = [jobs EXCEPT ![job.id] = job]
           /\ calls' = [calls EXCEPT ![c].pc = "done", ![c].job = NoJob,
                                     ![c].ret = RetBool(TRUE)]
    /\ UNCHANGED <<queue, events, clock>>

\* JobController.cancelJob: the response to what the service returned or threw
cancelJobResponse(ret) ==
    IF ret.kind = "error"
    THEN [status |-> 500, error |-> "Failed to cancel job"]
    ELSE IF ~ret.val
    THEN [status |-> 404, error |-> "Job not found or cannot be cancelled"]
    ELSE [status |-> 200, error |-> NULL]

\* JobService.cancelJob, one await at a time, for requests of the users U
cancelJobAs(U) ==
    \/ \E c \in DOMAIN calls, jobId \in JobIds, userId \in U : CancelRead(c, jobId, userId)
    \/ \E c \in DOMAIN calls : CancelRemove(c)
    \/ \E c \in DOMAIN calls : CancelSave(c)

cancelJob == cancelJobAs(Owners)

\* ---------------------------------------------------------------- worker
\* the engine hands a waiting item of the worker's queue to the worker
Claim(jobType, it) ==
    /\ it \in queue
    /\ it.queue = sanitizeQueueNameWorker(jobType)
    /\ it.state = "waiting"
    /\ queue' = (queue \ {it}) \cup {[it EXCEPT !.state = "active", !.phase = "claimed"]}
    /\ UNCHANGED <<jobs, events, calls, clock>>

\* processJob, lines 280-284: the claim-time PROCESSING update
ProcessStart(it) ==
    /\ it \in queue
    /\ it.state = "active" /\ it.phase = "claimed"
    /\ jobs' = updateJobStatus(jobs, it.dbJobId, PROCESSING, NULL, NULL, clock)
    /\ queue' = (queue \ {it}) \cup {[it EXCEPT !.phase = "running"]}
    /\ UNCHANGED <<events, calls, clock>>

\* the processor returns: the engine records the return value and the worker
\* emits 'completed'
ProcessSucceed(it, result) ==
    /\ it \in queue
    /\ it.state = "active" /\ it.phase = "running"
    /\ queue' = (queue \ {it}) \cup
            {[it EXCEPT !.state = "completed", !.phase = "none", !.returnvalue = result]}
    /\ events' = events \cup
            {[kind |-> "completed", dbJobId |-> it.dbJobId, result |-> result,
              error |-> NULL, attemptsMade |-> it.attemptsMade, attempts |-> it.attempts]}
    /\ UNCHANGED <<jobs, calls, clock>>

\* the processor throws: the engine counts the attempt, schedules a retry while
\* attempts remain, and the worker emits 'failed'
ProcessFail(it, error) ==
    /\ it \in queue
    /\ it.state = "active" /\ it.phase = "running"
    /\ LET made == it.attemptsMade + 1
       IN  /\ queue' = (queue \ {it}) \cup
                {[it EXCEPT !.attemptsMade = made, !.phase = "none",
                     !.state = IF made < it.attempts THEN "delayed" ELSE "failed",
                     !.failedReason = error]}
           /\ events' = events \cup
                {[kind |-> "failed", dbJobId |-> it.dbJobId, result |-> NULL,
                  error |-> error, attemptsMade |-> made, attempts |-> it.attempts]}
    /\ UNCHANGED <<jobs, calls, clock>>

\* the backoff delay of a retry elapses
Promote(it) ==
    /\ it \in queue
    /\ it.state = "delayed"
    /\ queue' = (queue \ {it}) \cup {[it EXCEPT !.state = "waiting"]}
    /\ UNCHANGED <<jobs, events, calls, clock>>

\* worker.on('completed'), lines 203-219
OnCompleted(e) ==
    /\ e \in events
    /\ e.kind = "completed"
    /\ jobs' = updateJobStatus(jobs, e.dbJobId, COMPLETED, e.result, NULL, clock)
    /\ events' = events \ {e}
    /\ UNCHANGED <<queue, calls, clock>>

\* lines 235-236: whether the 'failed' handler takes the failure as final
RetriesExhausted(attemptsMade, optsAttempts) ==
    attemptsMade >= (IF optsAttempts # 0 THEN optsAttempts ELSE WorkerDefaultAttempts)

\* worker.on('failed'), lines 221-249
OnFailed(e) ==
    /\ e \in events
    /\ e.kind = "failed"
    /\ jobs' = IF RetriesExhausted(e.attemptsMade, e.attempts)
               THEN updateJobStatus(jobs, e.dbJobId, FAILED, NULL, e.error, clock)
               ELSE updateJobStatus(jobs, e.dbJobId, PROCESSING, NULL, NULL, clock)
    /\ events' = events \ {e}
    /\ UNCHANGED <<queue, calls, clock>>

\* the workers of all job types and their event handlers
worker ==
    \/ \E t \in JobType, it \in queue : Claim(t, it)
    \/ \E it \in queue : ProcessStart(it)
    \/ \E it \in queue, r \in JobResults : ProcessSucceed(it, r)
    \/ \E it \in queue, m \in ErrorMessages : ProcessFail(it, m)
    \/ \E it \in queue : Promote(it)
    \/ \E e \in events : OnCompleted(e)
    \/ \E e \in events : OnFailed(e)

\* ------------------------------------------------- the engine unreachable
\* createJob, lines 228-251: queueManager.addJob rejects, the catch block logs
\* and rethrows
CreateAddFails(c) ==
    /\ calls[c].pc = "create_add"
    /\ calls' = [calls EXCEPT ![c].pc = "done", ![c].job = NoJob, ![c].ret = RetThrow]
    /\ UNCHANGED <<jobs, queue, events, clock>>

\* cancelJob, lines 364-383: queueManager.removeJob rejects, the catch block
\* logs and rethrows
CancelRemoveFails(c) ==
    /\ calls[c].pc = "cancel_remove"
    /\ calls' = [calls EXCEPT ![c].pc = "done", ![c].job = NoJob, ![c].ret = RetThrow]
    /\ UNCHANGED <<jobs, queue, events, clock>>

\* cancelJob, lines 364-383, when the item is held by a worker: bullmq's
\* job.remove() rejects for a job another worker has locked, removeJob
\* (queue.ts 133-145) and cancelJob let the rejection through
CancelRemoveLocked(c) ==
    /\ calls[c].pc = "cancel_remove"
    /\ \E it \in GetJob(queue, calls[c].job.type, QueueJobId(calls[c].job)) :
            it.state = "active"
    /\ calls' = [calls EXCEPT ![c].pc = "done", ![c].job = NoJob, ![c].ret = RetThrow]
    /\ UNCHANGED <<jobs, queue, events, clock>>

\* requests whose call to the engine fails
engineUnreachable ==
    \/ \E c \in DOMAIN calls : CreateAddFails(c)
    \/ \E c \in DOMAIN calls : CancelRemoveFails(c)

\* ------------------------------------------------- the store unreachable
\* the messages of the errors the repository rejects with
StoreErrors == {"db-down"}

\* processJob, line 284, when the store is unreachable: the awaited
\* updateJobStatus rejects (its catch block rethrows, job.controller.ts
\* 430-437), the rejection leaves processJob before its try block, and the
\* engine takes the rejected processor call as a failed attempt
ProcessStartFails(it, error) ==
    /\ it \in queue
    /\ it.state = "active" /\ it.phase = "claimed"
    /\ LET made == it.attemptsMade + 1
       IN  /\ queue' = (queue \ {it}) \cup
                {[it EXCEPT !.attemptsMade = made, !.phase = "none",
                     !.state = IF made < it.attempts THEN "delayed" ELSE "failed",
                     !.failedReason = error]}
           /\ events' = events \cup
                {[kind |-> "failed", dbJobId |-> it.dbJobId, result |-> NULL,
                  error |-> error, attemptsMade |-> made, attempts |-> it.attempts]}
    /\ UNCHANGED <<jobs, calls, clock>>

\* workers whose write to the store fails
storeUnreachable ==
    \E it \in queue, m \in StoreErrors : ProcessStartFails(it, m)

\* ---------------------------------------------------------- stalled items
\* the worker emits 'stalled' for an item it holds; the event names the item
Stalled(it) ==
    /\ it \in queue
    /\ it.state = "active"
    /\ events' = events \cup
            {[kind |-> "stalled", dbJobId |-> it.dbJobId, result |-> NULL,
              error |-> NULL, attemptsMade |-> it.attemptsMade, attempts |-> it.attempts]}
    /\ UNCHANGED <<jobs, queue, calls, clock>>

\* a 'stalled' handler that takes the stall as the failure of the job
StalledFailsJob(js, e) ==
    IF Exists(js, e.dbJobId) THEN [js EXCEPT ![e.dbJobId].status = FAILED] ELSE js

\* lines 259-264: the records after the 'stalled' handler, which calls nothing
\* but the logger
StalledJobs(js, e) == js

\* worker.on('stalled'), lines 259-264: logger.warn('Worker job stalled');
\* the handled event stays in events as the line of the log
OnStalled(e) ==
    /\ e \in events
    /\ e.kind = "stalled"
    /\ jobs' = StalledJobs(jobs, e)
    /\ events' = (events \ {e}) \cup {[e EXCEPT !.kind = "stalled-logged"]}
    /\ UNCHANGED <<queue, calls, clock>>

\* the 'stalled' events of the workers and their handler
stalled ==
    \/ \E it \in queue : Stalled(it)
    \/ \E e \in events : OnStalled(e)

\* time passes between two readings of new Date()
Tick ==
    /\ clock < MaxClock
    /\ clock' = clock + 1
    /\ UNCHANGED <<jobs, queue, events, calls>>

\* one client issuing requests, the workers and their handlers
Next ==
    \/ createJob
    \/ getJobById
    \/ cancelJob
    \/ worker

Spec == Init /\ [][Next]_vars

\* concurrent createJob requests alone
InitCreate ==
    /\ jobs = <<>>
    /\ queue = {}
    /\ events = {}
    /\ calls = [c \in Creators |-> IdleCall]
    /\ clock = 1

NextCreate == createJob

SpecCreate == InitCreate /\ [][NextCreate]_vars

\* create requests of any type arriving at the controller
NextApi ==
    \/ \E c \in DOMAIN calls, dto \in Requests \cup BadRequests, userId \in Owners :
            CreateRequest(c, dto, userId)
    \/ \E c \in DOMAIN calls : CreateSave(c)
    \/ \E c \in DOMAIN calls : CreateAdd(c)

SpecApi == InitCreate /\ [][NextApi]_vars

\* create requests with any maxAttempts
NextAttempts ==
    \/ \E c \in DOMAIN calls, dto \in AttemptRequests, userId \in Owners :
            CreateRequest(c, dto, userId)
    \/ \E c \in DOMAIN calls : CreateSave(c)
    \/ \E c \in DOMAIN calls : CreateAdd(c)

SpecAttempts == InitCreate /\ [][NextAttempts]_vars

\* the workers up to the invocation of the processor
dequeue ==
    \/ \E t \in JobType, it \in queue : Claim(t, it)
    \/ \E it \in queue : ProcessStart(it)

\* clients creating and cancelling jobs concurrently, and the workers taking
\* the items
NextRace ==
    \/ createJob
    \/ cancelJob
    \/ dequeue

SpecRace == InitCreate /\ [][NextRace]_vars

\* jobs created and left to the workers: no getJobById, no cancelJob
NextWorker ==
    \/ createJob
    \/ worker
    \/ Tick

SpecWorker == Init /\ [][NextWorker]_vars

\* a client creating and polling jobs while the workers run them, with the
\* clock running: no cancelJob
NextPoll ==
    \/ createJob
    \/ getJobById
    \/ worker
    \/ Tick

SpecPoll == Init /\ [][NextPoll]_vars

\* jobs created and left to the workers while the store comes and goes
NextStore ==
    \/ createJob
    \/ worker
    \/ storeUnreachable

SpecStore == Init /\ [][NextStore]_vars

\* jobs created and left to the workers, whose items are reported stalled
NextStalled ==
    \/ createJob
    \/ worker
    \/ stalled

SpecStalled == Init /\ [][NextStalled]_vars

\* jobs created with any maxAttempts and left to the workers
NextBounded ==
    \/ \E c \in DOMAIN calls, dto \in AttemptRequests, userId \in Owners :
            CreateRequest(c, dto, userId)
    \/ \E c \in DOMAIN calls : CreateSave(c)
    \/ \E c \in DOMAIN calls : CreateAdd(c)
    \/ worker

SpecBounded == Init /\ [][NextBounded]_vars

\* jobs created and left to the workers, within one reading of the clock
NextLive ==
    \/ createJob
    \/ worker

\* a createJob call under way returns; the engine hands every waiting item to
\* its worker and promotes every delayed one; the processor returns or throws;
\* every emitted event is handled
Fairness ==
    /\ \A c \in Callers : WF_vars(CreateSave(c) \/ CreateAdd(c))
    /\ WF_vars(\E t \in JobType, it \in queue : Claim(t, it))
    /\ WF_vars(\E it \in queue : ProcessStart(it))
    /\ WF_vars(\E it \in queue :
            \/ \E r \in JobResults : ProcessSucceed(it, r)
            \/ \E m \in ErrorMessages : ProcessFail(it, m))
    /\ WF_vars(\E it \in queue : Promote(it))
    /\ WF_vars(\E e \in events : OnCompleted(e))
    /\ WF_vars(\E e \in events : OnFailed(e))

SpecLive == Init /\ [][NextLive]_vars /\ Fairness

\* a client creating and cancelling jobs while the engine comes and goes
NextOutage ==
    \/ createJob
    \/ cancelJob
    \/ worker
    \/ engineUnreachable

SpecOutage == Init /\ [][NextOutage]_vars

\* a client creating and cancelling jobs while the workers hold their items
\* locked
NextLocked ==
    \/ createJob
    \/ cancelJob
    \/ worker
    \/ \E c \in DOMAIN calls : CancelRemoveLocked(c)

SpecLocked == Init /\ [][NextLocked]_vars

\* the owner creating jobs, requests of any user reading and cancelling them,
\* and the workers taking the items
NextOwner ==
    \/ createJob
    \/ getJobByIdAs(Users)
    \/ cancelJobAs(Users)
    \/ dequeue

SpecOwner == Init /\ [][NextOwner]_vars

\* ====================================================================
\* Properties
\* ====================================================================
IsTerminal(status) == status \in {COMPLETED, FAILED, CANCELLED}

\* a worker lifecycle signal reaches the store
WorkerSignal ==
    \/ \E it \in queue : ProcessStart(it)
    \/ \E e \in events : OnCompleted(e)
    \/ \E e \in events : OnFailed(e)

\* events of a job that no handler has processed yet
PendingEvents(jobId) == {e \in events : e.dbJobId = jobId}

\* C1: once a record is COMPLETED, FAILED or CANCELLED, no worker lifecycle
\* signal (the claim-time PROCESSING update, the 'completed' handler, the
\* 'failed' handler) changes its status, result or error.
C1_TerminalImmutable ==
    [][WorkerSignal =>
        \A id \in DOMAIN jobs :
            IsTerminal(jobs[id].status) =>
                /\ jobs'[id].status = jobs[id].status
                /\ jobs'[id].result = jobs[id].result
                /\ jobs'[id].error = jobs[id].error]_vars

\* caller c sends a createJob whose idempotency key some row already bears
DuplicateCreate(c) ==
    /\ Free(c)
    /\ calls'[c] # calls[c]
    /\ calls'[c].op = "create"
    /\ Truthy(calls'[c].dto.idempotencyKey)
    /\ FindByKey(jobs, calls'[c].dto.idempotencyKey) # {}

\* C2: createJob with a key K and payload P1 stores P1 and returns the new
\* row; a later createJob with K and any payload P2 returns that same row,
\* changes no row and adds no item to the engine; the stored payload stays P1.
C2_IdempotentCreate ==
    [][\A c \in DOMAIN calls :
        /\ DuplicateCreate(c) =>
              /\ calls'[c].pc = "done"
              /\ calls'[c].ret.kind = "job"
              /\ \A id \in FindByKey(jobs, calls'[c].dto.idempotencyKey) :
                    calls'[c].ret.job = mapToResponse(jobs[id])
              /\ jobs' = jobs
              /\ queue' = queue
        /\ (calls[c].pc = "create_add" /\ calls'[c].pc = "done") =>
              /\ calls'[c].ret.kind = "job"
              /\ calls'[c].ret.job.id \in DOMAIN jobs
              /\ calls'[c].ret.job.data = calls[c].dto.data
              /\ jobs[calls'[c].ret.job.id].data = calls[c].dto.data
              /\ jobs[calls'[c].ret.job.id].idempotencyKey = calls[c].job.idempotencyKey
        /\ \A id \in DOMAIN jobs :
              /\ jobs'[id].data = jobs[id].data
              /\ jobs'[id].idempotencyKey = jobs[id].idempotencyKey]_vars

\* C2 witness: a createJob has returned a row whose payload is not the one the
\* request carried (the second payload was discarded)
C2_Witness ==
    \E c \in DOMAIN calls :
        /\ calls[c].op = "create" /\ calls[c].pc = "done"
        /\ calls[c].ret.kind = "job"
        /\ Truthy(calls[c].dto.idempotencyKey)
        /\ calls[c].ret.job.data # calls[c].dto.data
        /\ jobs[calls[c].ret.job.id].data = calls[c].ret.job.data

\* C3: when createJob calls with the same idempotency key race, exactly one row
\* bears the key and every call, the losing one included, returns that row
\* instead of surfacing an error.
C3_ConcurrentDuplicate ==
    \A c \in DOMAIN calls :
        (/\ calls[c].op = "create" /\ calls[c].pc = "done"
         /\ Truthy(calls[c].dto.idempotencyKey)) =>
            /\ Cardinality(FindByKey(jobs, calls[c].dto.idempotencyKey)) = 1
            /\ calls[c].ret.kind = "job"
            /\ calls[c].ret.job.id \in FindByKey(jobs, calls[c].dto.idempotencyKey)

\* C4: a job whose handler always fails goes through exactly maxAttempts
\* failed attempts and its record then is FAILED with attempts = maxAttempts,
\* error populated and result absent; it is not FAILED after fewer failures.
C4_AttemptCeiling ==
    \A it \in queue :
        LET job == jobs[it.dbJobId]
        IN  /\ (it.state = "failed" /\ PendingEvents(it.dbJobId) = {}) =>
                  /\ it.attemptsMade = job.maxAttempts
                  /\ job.status = FAILED
                  /\ job.attempts = job.maxAttempts
                  /\ Truthy(job.error)
                  /\ job.result = NULL
            /\ job.status = FAILED => it.attemptsMade >= job.maxAttempts

\* C5: every record satisfies attempts <= maxAttempts, whatever the
\* interleaving of worker failure signals and getJobById reconciliation.
C5_AttemptsBounded ==
    \A id \in DOMAIN jobs : jobs[id].attempts <= jobs[id].maxAttempts

\* the engine item of a row, as getJobById looks it up
ItemOf(job) == GetJob(queue, job.type, QueueJobId(job))

\* C6: when the engine reports the item completed while the stored record
\* shows PROCESSING, the view getJobById returns has status COMPLETED and a
\* populated result.
C6_ReconciledView ==
    [][\A c \in DOMAIN calls :
        (/\ calls[c].pc = "get_write" /\ calls'[c].pc = "done"
         /\ calls[c].job.status = PROCESSING
         /\ jobs[calls[c].jobId].status = PROCESSING
         /\ calls[c].sync.status = COMPLETED) =>
            /\ calls'[c].ret.kind = "job"
            /\ calls'[c].ret.job.status = COMPLETED
            /\ Truthy(calls'[c].ret.job.result)]_vars

\* C7: a getJobById call leaves the status of a COMPLETED, FAILED or
\* CANCELLED record unchanged, whatever state the engine reports for the item.
C7_GetKeepsTerminal ==
    [][(\E c \in DOMAIN calls : calls[c].op = "get" /\ calls'[c] # calls[c]) =>
        \A id \in DOMAIN jobs :
            IsTerminal(jobs[id].status) => jobs'[id].status = jobs[id].status]_vars

\* caller c sends a cancelJob for row id
CancelOf(c, id) ==
    /\ Free(c)
    /\ calls'[c] # calls[c]
    /\ calls'[c].op = "cancel"
    /\ calls'[c].jobId = id

\* C8: cancelJob on a COMPLETED or CANCELLED record returns false and leaves
\* the record and the engine's items unchanged; cancelJob on a PENDING record
\* returns true and the record's status becomes CANCELLED.
C8_CancellationGuard ==
    [][\A c \in DOMAIN calls :
        /\ \A id \in DOMAIN jobs :
              (CancelOf(c, id) /\ jobs[id].status \in {COMPLETED, CANCELLED}) =>
                  /\ calls'[c].pc = "done"
                  /\ calls'[c].ret = RetBool(FALSE)
                  /\ jobs' = jobs
                  /\ queue' = queue
        /\ \A id \in DOMAIN jobs :
              (CancelOf(c, id) /\ jobs[id].status = PENDING) =>
                  /\ calls'[c].pc = "cancel_remove"
                  /\ calls'[c].job = jobs[id]
        /\ (/\ calls[c].op = "cancel" /\ calls[c].pc # "done" /\ calls'[c].pc = "done"
            /\ calls[c].job.status = PENDING) =>
                  /\ calls'[c].ret = RetBool(TRUE)
                  /\ jobs'[calls[c].jobId].status = CANCELLED]_vars

\* C8 witness: a cancelJob has returned false for a COMPLETED record
C8_Witness ==
    \E c \in DOMAIN calls :
        /\ calls[c].op = "cancel" /\ calls[c].pc = "done"
        /\ calls[c].ret = RetBool(FALSE)
        /\ calls[c].jobId \in DOMAIN jobs
        /\ jobs[calls[c].jobId].status = COMPLETED

\* C9: every step that sets a record's status to CANCELLED starts from a state
\* where that status is PENDING or PROCESSING.
C9_CancelledFrom ==
    [][\A id \in DOMAIN jobs :
        (jobs'[id].status = CANCELLED /\ jobs[id].status # CANCELLED) =>
            jobs[id].status \in {PENDING, PROCESSING}]_vars

\* C10: a record whose status is COMPLETED is not set to CANCELLED, however
\* cancelJob interleaves with the worker finishing the job.
C10_CompletedNotCancelled ==
    [][\A id \in DOMAIN jobs :
        jobs[id].status = COMPLETED => jobs'[id].status # CANCELLED]_vars

\* C11: every record whose status is COMPLETED, FAILED or CANCELLED has exactly
\* one of result and error populated (not both, not neither).
C11_ExactlyOneOutcome ==
    \A id \in DOMAIN jobs :
        IsTerminal(jobs[id].status) =>
            (Truthy(jobs[id].result) /\ ~Truthy(jobs[id].error))
            \/ (~Truthy(jobs[id].result) /\ Truthy(jobs[id].error))

\* C12: each of startedAt, completedAt and failedAt is set at most once per
\* record: once non-null, no later step changes its value.
C12_TimestampsSetOnce ==
    [][\A id \in DOMAIN jobs :
        /\ jobs[id].startedAt # 0 => jobs'[id].startedAt = jobs[id].startedAt
        /\ jobs[id].completedAt # 0 => jobs'[id].completedAt = jobs[id].completedAt
        /\ jobs[id].failedAt # 0 => jobs'[id].failedAt = jobs[id].failedAt]_vars

\* C13: a createJob call that is not an idempotent duplicate persists exactly
\* one new record, with status PENDING and attempts = 0, and enqueues exactly
\* one engine item in the queue of the job's type, whose identifier is the
\* idempotency key when one was given and the new record's id otherwise.
C13_FreshCreate ==
    [][\A c \in DOMAIN calls :
        /\ (calls[c].pc = "create_save" /\ calls'[c].pc = "create_add") =>
              /\ Len(jobs') = Len(jobs) + 1
              /\ \A id \in DOMAIN jobs : jobs'[id] = jobs[id]
              /\ jobs'[Len(jobs')].status = PENDING
              /\ jobs'[Len(jobs')].attempts = 0
              /\ jobs'[Len(jobs')].type = calls[c].dto.type
        /\ (calls[c].pc = "create_add" /\ calls'[c].pc = "done") =>
              /\ queue \subseteq queue'
              /\ Cardinality(queue' \ queue) = 1
              /\ \A it \in queue' \ queue :
                    /\ it.queue = sanitizeQueueName(calls[c].dto.type)
                    /\ it.id = IF Truthy(calls[c].dto.idempotencyKey)
                               THEN calls[c].dto.idempotencyKey
                               ELSE JobUuid(calls[c].job.id)]_vars

\* C14: when the engine is unreachable as createJob enqueues, the error
\* reaches the caller and no record of that request is in the store
\* afterwards; when it is unreachable as cancelJob removes the item, the error
\* reaches the caller and the record is unchanged.
C14_EngineFailureNoMutation ==
    [][\A c \in DOMAIN calls :
        /\ (calls[c].pc = "create_add" /\ calls'[c].ret = RetThrow) =>
              \A id \in DOMAIN jobs' : id # calls[c].job.id
        /\ (calls[c].pc = "cancel_remove" /\ calls'[c].ret = RetThrow) =>
              /\ calls[c].jobId \in DOMAIN jobs'
              /\ jobs'[calls[c].jobId] = jobs[calls[c].jobId]]_vars

\* C15: cancelJob on an id no record matches ends in NotFound, an outcome
\* different from the false returned for a record that is COMPLETED or
\* CANCELLED.
C15_NotFoundDistinct ==
    [][\A c \in DOMAIN calls, id \in JobIds :
        (CancelOf(c, id) /\ id \notin DOMAIN jobs) =>
            /\ calls'[c].pc = "done"
            /\ calls'[c].ret # RetBool(FALSE)
            /\ cancelJobResponse(calls'[c].ret) # cancelJobResponse(RetBool(FALSE))]_vars

C17_CancelPreventsDequeue ==
    \A c \in DOMAIN calls :
        (calls[c].op = "cancel" /\ calls[c].pc = "done" /\ calls[c].ret = RetBool(TRUE)) =>
            \A it \in queue :
                it.dbJobId = calls[c].jobId =>
                    ~(it.state = "waiting" /\ it.attemptsMade = 0)

\* C18: a create request whose type is not one of the JobType values is
\* rejected with an invalid-type error, and no record is persisted and no
\* engine item enqueued for it.
C18_ValidationFirst ==
    [][/\ \A id \in DOMAIN jobs : jobs[id].type \in JobType
       /\ \A it \in queue : \E t \in JobType : it.queue = sanitizeQueueName(t)
       /\ \A c \in DOMAIN calls :
            (/\ Free(c) /\ calls'[c] # calls[c] /\ calls'[c].op = "create"
             /\ calls'[c].dto.type \notin JobType) =>
                /\ calls'[c].pc = "done"
                /\ calls'[c].ret = RetInvalid
                /\ createJobResponse(calls'[c].ret).status = 400
                /\ jobs' = jobs
                /\ queue' = queue]_vars

\* C18 witness: a request with an unknown type has been answered while the
\* store holds a record of a valid request
C18_Witness ==
    \E c \in DOMAIN calls :
        /\ calls[c].op = "create" /\ calls[c].pc = "done"
        /\ calls[c].dto.type \notin JobType
        /\ calls[c].ret = RetInvalid
        /\ Len(jobs) > 0

\* caller c sends a request on record id in the name of a user who is not
\* its owner
OtherOwner(c, id) ==
    /\ Free(c)
    /\ calls'[c] # calls[c]
    /\ calls'[c].jobId = id
    /\ Truthy(calls'[c].userId)
    /\ calls'[c].userId # jobs[id].userId

\* C19: getJobById called with an owner id that differs from the record's
\* owner returns not-found, cancelJob called so does not cancel, and both
\* leave the record and the engine's items unchanged.
C19_OwnerScoping ==
    [][\A c \in DOMAIN calls, id \in DOMAIN jobs :
        /\ (OtherOwner(c, id) /\ calls'[c].op = "get") =>
              /\ calls'[c].pc = "done"
              /\ calls'[c].ret = RetNull
              /\ jobs' = jobs
              /\ queue' = queue
        /\ (OtherOwner(c, id) /\ calls'[c].op = "cancel") =>
              /\ calls'[c].pc = "done"
              /\ calls'[c].ret = RetBool(FALSE)
              /\ jobs' = jobs
              /\ queue' = queue]_vars

\* C19 witness: another user's getJobById has returned not-found for a PENDING
\* record whose item a worker holds (a reconciliation would have written)
C19_Witness ==
    \E c \in DOMAIN calls :
        /\ calls[c].op = "get" /\ calls[c].pc = "done" /\ calls[c].ret = RetNull
        /\ calls[c].jobId \in DOMAIN jobs
        /\ Truthy(calls[c].userId)
        /\ calls[c].userId # jobs[calls[c].jobId].userId
        /\ jobs[calls[c].jobId].status = PENDING
        /\ \E it \in ItemOf(jobs[calls[c].jobId]) : it.state = "active"

\* C20: every record satisfies maxAttempts >= 1: whatever maxAttempts a create
\* request carries (absent, 0, negative, positive), the persisted record's
\* maxAttempts is at least 1, and it is 3 when the request gives none.
C20_MaxAttemptsPositive ==
    [][/\ \A id \in DOMAIN jobs : jobs[id].maxAttempts >= 1
       /\ \A c \in DOMAIN calls :
            (calls[c].pc = "create_save" /\ calls'[c].pc = "create_add") =>
                /\ jobs'[Len(jobs')].maxAttempts >= 1
                /\ calls[c].dto.maxAttempts = 0 => jobs'[Len(jobs')].maxAttempts = 3]_vars

\* C21: every processing failure signal increments the record's attempts by
\* exactly one: once a 'failed' signal has been handled, the record's attempts
\* equals the engine's count of attempts made for the item, also when retries
\* remain.
C21_AttemptsLockstep ==
    [][\A e \in events :
        (e.kind = "failed" /\ e \notin events' /\ e.dbJobId \in DOMAIN jobs) =>
            /\ jobs'[e.dbJobId].attempts = jobs[e.dbJobId].attempts + 1
            /\ jobs'[e.dbJobId].attempts = e.attemptsMade]_vars

\* C22: when a handler fails and attempts remain, the worker's failure
\* handling leaves the record PROCESSING with failedAt and error unset; the
\* worker sets FAILED, stores the error text and records failedAt only when
\* the engine's attempts made have reached the item's attempt ceiling.
C22_RetryOrTerminal ==
    [][\A e \in events :
        (e.kind = "failed" /\ e \notin events' /\ e.dbJobId \in DOMAIN jobs) =>
            IF e.attemptsMade < e.attempts
            THEN /\ jobs'[e.dbJobId].status = PROCESSING
                 /\ jobs'[e.dbJobId].failedAt = 0
                 /\ jobs'[e.dbJobId].error = NULL
            ELSE /\ jobs'[e.dbJobId].status = FAILED
                 /\ jobs'[e.dbJobId].error = e.error
                 /\ jobs'[e.dbJobId].failedAt = clock]_vars

\* C23: once a record's status has been PROCESSING, no operation sets it back
\* to PENDING, in particular no getJobById reconciliation while the engine
\* item waits for a retry.
C23_NoRegressToPending ==
    [][\A id \in DOMAIN jobs :
        (/\ jobs[id].status = PROCESSING \/ jobs[id].startedAt # 0
         /\ jobs[id].status # PENDING) =>
            jobs'[id].status # PENDING]_vars

\* the statuses a record on the success path may move between in one step
SuccessStep(from, to) ==
    \/ to = from
    \/ from = PENDING /\ to = PROCESSING
    \/ from = PROCESSING /\ to = COMPLETED

\* C24: for a job whose handler succeeds on the first attempt and that is not
\* cancelled, the record's status goes PENDING, PROCESSING, COMPLETED with no
\* other status in between, the result is stored, and in the final state
\* startedAt and completedAt are both set with completedAt >= startedAt.
C24_SuccessPath ==
    [][\A it \in queue :
        (it.attemptsMade = 0 /\ it.dbJobId \in DOMAIN jobs) =>
            LET job == jobs[it.dbJobId]
            IN  /\ SuccessStep(job.status, jobs'[it.dbJobId].status)
                /\ (it.state = "completed" /\ PendingEvents(it.dbJobId) = {}) =>
                      /\ job.status = COMPLETED
                      /\ job.result = it.returnvalue
                      /\ job.startedAt # 0
                      /\ job.completedAt # 0
                      /\ job.completedAt >= job.startedAt]_vars

\* C25: a getJobById call writes to the record if and only if the status
\* mapped from the engine item differs from the record's current status;
\* when they are equal, or the item is absent or in another state, every
\* field of the record is unchanged.
C25_WritesOnlyOnStatusDifference ==
    [][\A c \in DOMAIN calls :
        LET job == calls[c].job
            found == ItemOf(job)
            differs == /\ found # {}
                       /\ SyncTarget(job, CHOOSE it \in found : TRUE).status # job.status
        IN  /\ (/\ calls[c].pc = "get_sync" /\ calls'[c] # calls[c]
                /\ job = jobs[calls[c].jobId]) =>
                    (calls'[c].pc = "get_write" <=> differs)
            /\ (/\ calls[c].pc = "get_write" /\ calls'[c] # calls[c]
                /\ calls[c].sync.status = jobs[calls[c].jobId].status) =>
                    jobs' = jobs]_vars

\* C26: when the store is unreachable as the worker writes the PROCESSING
\* transition of a claimed item, the failure never becomes the record's error
\* text or its status FAILED, and it takes none of the job's processing
\* attempts.
C26_InfrastructureNotJobFailure ==
    [][/\ \A id \in DOMAIN jobs' : jobs'[id].error \notin StoreErrors
       /\ \A it \in queue, m \in StoreErrors :
            ProcessStartFails(it, m) =>
                \A i2 \in queue' :
                    (i2.id = it.id /\ i2.queue = it.queue) =>
                        i2.attemptsMade = it.attemptsMade]_vars

\* C27: handling the worker's 'stalled' event of any item leaves every record
\* (status, attempts, result, error, timestamps) and the engine's items
\* unchanged.
C27_StalledChangesNothing ==
    [][(\E e \in events : OnStalled(e)) => (jobs' = jobs /\ queue' = queue)]_vars

\* C27 witness: the 'stalled' event of a job that is PROCESSING has been
\* handled
C27_Witness ==
    \E e \in events :
        /\ e.kind = "stalled-logged"
        /\ e.dbJobId \in DOMAIN jobs
        /\ jobs[e.dbJobId].status = PROCESSING

\* the number of times the engine has called the processor for an item
Invocations(it) ==
    it.attemptsMade + (IF it.state \in {"active", "completed"} THEN 1 ELSE 0)

\* C28: the attempt ceiling given to the engine at enqueue equals the record's
\* maxAttempts, the worker's terminal-failure test uses that same ceiling, and
\* the processor is invoked at most maxAttempts times for any one job.
C28_BoundedExecutions ==
    /\ \A it \in queue :
        it.dbJobId \in DOMAIN jobs =>
            /\ it.attempts = jobs[it.dbJobId].maxAttempts
            /\ Invocations(it) > 0 => Invocations(it) <= jobs[it.dbJobId].maxAttempts
    /\ \A e \in events :
        (e.kind = "failed" /\ e.dbJobId \in DOMAIN jobs) =>
            (RetriesExhausted(e.attemptsMade, e.attempts)
                <=> e.attemptsMade >= jobs[e.dbJobId].maxAttempts)

\* C29: with the engine delivering every enqueued item, every handler
\* invocation terminating, every lifecycle handler eventually running and no
\* cancelJob, every record created by createJob eventually has status
\* COMPLETED or FAILED and keeps a terminal status from then on.
C29_EventuallyTerminal ==
    \A id \in JobIds :
        (id \in DOMAIN jobs) ~>
            (/\ id \in DOMAIN jobs /\ jobs[id].status \in {COMPLETED, FAILED}
             /\ [](id \in DOMAIN jobs /\ IsTerminal(jobs[id].status)))

\* C30: sanitizeQueueName maps distinct JobType values to distinct queue
\* names, the queue manager and the worker service derive the same name for a
\* type, and the queue of the worker created for type T holds exactly the
\* items enqueued for type T and no item of another type.
C30_QueueNaming ==
    /\ \A t1, t2 \in JobType :
        t1 # t2 => sanitizeQueueName(t1) # sanitizeQueueName(t2)
    /\ \A t \in JobType : sanitizeQueueNameWorker(t) = sanitizeQueueName(t)
    /\ \A it \in queue, t \in JobType :
        it.dbJobId \in DOMAIN jobs =>
            (it.queue = sanitizeQueueNameWorker(t) <=> jobs[it.dbJobId].type = t)

\* C30 witness: the worker of one type has taken its item while an item of
\* another type waits in its own queue
C30_Witness ==
    \E i1, i2 \in queue :
        /\ i1.state = "active" /\ i2.state = "waiting"
        /\ i1.queue = sanitizeQueueNameWorker(FILE_PROCESS)
        /\ i2.queue = sanitizeQueueNameWorker(EMAIL_SEND)
====
